---- MODULE Spec2Model ----
(***************************************************************************)
(* CampScouter (src/CampScouter.py): a Streamlit script that geocodes an   *)
(* address, searches nearby places and shows a satellite image of the      *)
(* selected place.  One render pass is the top-to-bottom run of the script;*)
(* it blocks on up to three HTTP requests.  The model splits the pass at   *)
(* each blocking request: the upstream response is the input of the next   *)
(* step.  Coordinates are modelled as integers, Python strings and bytes   *)
(* as TLA+ strings, Python None as the empty tuple and a non-None value v  *)
(* as <<v>> wherever a variable may hold None.                              *)
(***************************************************************************)
EXTENDS Integers, Sequences, FiniteSets, TLC

VARIABLES
    pc,             \* position of the script: start, geocode, textsearch, staticmap, done
                    \* (SpecDownload: call, file_done, mem_done)
    api_key,        \* line 100
    address,        \* line 102
    zoom,           \* line 105
    query,          \* line 111
    latitude,       \* line 108 (None or <<int>>)
    longitude,      \* line 108 (None or <<int>>)
    places,         \* line 113
    place_options,  \* line 115
    choice,         \* 0-based index of the option currently selected in the selectbox
    selected_place, \* line 116 (None or <<label>>)
    selected_lat,   \* line 119 / parameter lat of the download functions
    selected_lon,   \* line 120 / parameter lon of the download functions
    image_bytes,    \* line 121 / return value of download_image_as_bytes (None or <<bytes>>)
    response,       \* the HTTP response most recently received
    requests,       \* HTTP requests issued in this pass, in order
    replies,        \* history: one summary per HTTP response received in this pass
    shown,          \* elements rendered on the page in this pass, in order
    stdout,         \* lines printed in this pass
    img_file_name,  \* parameter of download_satellite_image
    files           \* file system: path -> None or <<bytes>>

vars == <<pc, api_key, address, zoom, query, latitude, longitude, places,
          place_options, choice, selected_place, selected_lat, selected_lon,
          image_bytes, response, requests, replies, shown, stdout,
          img_file_name, files>>

-----------------------------------------------------------------------------
(* Bounds and input domains *)

MaxResults == 2

Keys == {"", "KEY"}
Addresses == {"", "1 Camp Rd"}
Queries == {"", "camp sites"}
Coords == {0, 1}
Names == {"Pine Camp", "Pine Camp (0, 1)"}
Sites == {<<0, 1>>, <<1, 0>>}
Contents == {"PNGDATA", "JPGDATA"}
HttpStatuses == {200, 204, 403, 404, 500}
GeocodeErrors == {"ZERO_RESULTS", "REQUEST_DENIED"}
Paths == {"a.png", "b.png"}

MinZoom == 0
MaxZoom == 21
DefaultZoom == 12
PlaceZoom == 12
Radius == 5000
HTTP_OK == 200

None == << >>
Some(v) == <<v>>

SeqUpTo(S, n) == UNION {[1..k -> S] : k \in 0..n}

-----------------------------------------------------------------------------
(* Python helpers *)

\* str() of an int or of None, as an f-string formats it
PyStr(v) == IF v = None THEN "None" ELSE ToString(v[1])

\* list.index: the first index holding x (1-based here)
ListIndex(seq, x) == CHOOSE i \in 1..Len(seq) : seq[i] = x /\ \A j \in 1..(i-1) : seq[j] # x

\* dict.get(key, default) for the key "results"
GetResults(json) == IF "results" \in DOMAIN json THEN json.results ELSE << >>

-----------------------------------------------------------------------------
(* Upstream responses.  The three APIs are taken to honour their contracts: *)
(* a geocoding body with status "OK" carries at least one result, every    *)
(* result carries numeric lat/lng (and a name, for places), and a 200      *)
(* imagery response carries a decodable image.                             *)

Location(la, lo) == [geometry |-> [location |-> [lat |-> la, lng |-> lo]]]
GeoResults == {Location(la, lo) : la \in Coords, lo \in Coords}
PlaceResults == {[name |-> n, geometry |-> [location |-> [lat |-> s[1], lng |-> s[2]]]] :
                    n \in Names, s \in Sites}

GeocodeBodies ==
    {[status |-> "OK", results |-> r] : r \in SeqUpTo(GeoResults, MaxResults) \ {<< >>}}
    \cup {[status |-> s, results |-> << >>] : s \in GeocodeErrors}
    \cup {[status |-> s] : s \in GeocodeErrors}

PlaceBodies ==
    {[status |-> "OK", results |-> r] : r \in SeqUpTo(PlaceResults, MaxResults) \ {<< >>}}
    \cup {[status |-> "ZERO_RESULTS", results |-> << >>]}
    \cup {[status |-> "REQUEST_DENIED"]}

ImageResponses == {[status_code |-> s, content |-> c] : s \in HttpStatuses, c \in Contents}

Zooms == MinZoom..MaxZoom

-----------------------------------------------------------------------------
(* The functions of the script *)

StatusIs2xx(code) == code \div 100 = 2
\* lines 21 and 92: response.status_code == 200
StatusIs200(code) == code = HTTP_OK

StaticMapRequest(key, lat, lon, z) ==
    [api |-> "staticmap",
     url |-> "https://maps.googleapis.com/maps/api/staticmap",
     params |-> [center |-> ToString(lat) \o "," \o ToString(lon), zoom |-> z,
                 size |-> "600x600", maptype |-> "satellite", key |-> key]]

GeocodeRequest(key, addr) ==
    [api |-> "geocode",
     url |-> "https://maps.googleapis.com/maps/api/geocode/json",
     params |-> [address |-> addr, key |-> key]]

TextSearchRequest(key, q, location, radius) ==
    [api |-> "textsearch",
     url |-> "https://maps.googleapis.com/maps/api/place/textsearch/json",
     params |-> [query |-> q, location |-> location, radius |-> radius, key |-> key]]

\* download_satellite_image, lines 21-26: the file system after the call
download_satellite_image(resp, path, fs) ==
    IF StatusIs200(resp.status_code)
    THEN [fs EXCEPT ![path] = Some(resp.content)]
    ELSE fs

\* download_satellite_image, lines 24 and 26: the line printed
download_satellite_image_print(resp, path) ==
    IF StatusIs200(resp.status_code)
    THEN "Image successfully downloaded: " \o path
    ELSE "Failed to download the image. Check your API key and quota."

download_image_always(resp) == Some(resp.content)
\* download_image_as_bytes, lines 92-95
download_image_as_bytes(resp) ==
    IF StatusIs200(resp.status_code) THEN Some(resp.content) ELSE None

\* find_places, lines 50-62
find_places(json) ==
    LET results == GetResults(json)
    IN  [i \in 1..Len(results) |->
            [name |-> results[i].name,
             latitude |-> results[i].geometry.location.lat,
             longitude |-> results[i].geometry.location.lng,
             zoom |-> PlaceZoom]]

get_lat_long_default(result) ==
    IF result.status = "OK"
    THEN <<Some(result.results[1].geometry.location.lat),
           Some(result.results[1].geometry.location.lng)>>
    ELSE <<Some(0), Some(0)>>
\* get_lat_long, lines 78-86: the pair returned
get_lat_long(result) ==
    IF result.status = "OK"
    THEN <<Some(result.results[1].geometry.location.lat),
           Some(result.results[1].geometry.location.lng)>>
    ELSE <<None, None>>

\* get_lat_long, line 85: the lines printed
get_lat_long_print(result) ==
    IF result.status = "OK" THEN << >>
    ELSE <<"Error finding location: " \o result.status>>

-----------------------------------------------------------------------------
(* The conditions and expressions of the controller *)

AddressOrKeyGiven(a, k) == a # "" \/ k # ""
\* line 107: if address and api_key
AddressAndKeyGiven(a, k) == a # "" /\ k # ""

GeocodeFoundAlways(lat, lng) == TRUE
GeocodeFoundTruthy(lat, lng) == lat \notin {None, Some(0)} /\ lng \notin {None, Some(0)}
\* line 109: if latitude is not None and longitude is not None
GeocodeFound(lat, lng) == lat # None /\ lng # None

QueryIgnored(q) == TRUE
\* line 112: if query
QueryGiven(q) == q # ""

PlacesFoundAlways(ps) == TRUE
\* line 114: if places
PlacesFound(ps) == ps # << >>

PlaceLabelByName(place) == place.name
\* line 115: f"{place['name']} ({place['latitude']}, {place['longitude']})"
PlaceLabel(place) ==
    place.name \o " (" \o ToString(place.latitude) \o ", " \o ToString(place.longitude) \o ")"

\* line 116: the value st.selectbox returns when option c (0-based) is selected;
\* None when there are no options
selectbox(options, c) == IF options = << >> THEN None ELSE Some(options[c + 1])

\* the indexes the user can have selected (0 when there are no options)
SelectChoices(options) == IF options = << >> THEN {0} ELSE 0..(Len(options) - 1)

\* line 117: if selected_place
SelectedGiven(sel) == sel # None /\ sel # Some("")

ImageryArgsPlaceZoom(ps, options, sel, z) ==
    LET selected_index == ListIndex(options, sel[1])
    IN  [lat |-> ps[selected_index].latitude,
         lon |-> ps[selected_index].longitude,
         zoom |-> ps[selected_index].zoom]
\* lines 118-121: the arguments passed to download_image_as_bytes
ImageryArgs(ps, options, sel, z) ==
    LET selected_index == ListIndex(options, sel[1])
    IN  [lat |-> ps[selected_index].latitude,
         lon |-> ps[selected_index].longitude,
         zoom |-> z]

\* line 122: if image_bytes (a BytesIO object is always truthy)
ImageGiven(b) == b # None

\* page elements
Title == [fn |-> "title", body |-> "CampRecon"]
KeyInput == [fn |-> "text_input", body |-> "Enter your Google API Key"]
AddressInput == [fn |-> "text_input", body |-> "Enter an address or location"]
ZoomInput == [fn |-> "number_input", body |-> "Zoom Level"]
QueryInput == [fn |-> "text_input", body |-> "Enter search query for nearby places"]
PlaceSelect == [fn |-> "selectbox", body |-> "Select a place to view"]
Write(text) == [fn |-> "write", body |-> text]
Error(text) == [fn |-> "error", body |-> text]
ShowImage(b) == [fn |-> "image", body |-> b[1]]

CoordsText(lat, lng) == "Latitude: " \o PyStr(lat) \o ", Longitude: " \o PyStr(lng)
PromptText == "Please enter a valid API key and address."
NotFoundText == "Location not found."
NoPlacesText == "No places found."
FailedText == "Failed to download the image. Check your API key and quota."

-----------------------------------------------------------------------------
(* The render pass of the controller, lines 98-132 *)

PassLocals == <<query, latitude, longitude, places, place_options, choice,
                selected_place, selected_lat, selected_lon, image_bytes>>
Downloads == <<img_file_name, files>>

Init ==
    /\ pc = "start"
    /\ api_key = ""
    /\ address = ""
    /\ zoom = DefaultZoom
    /\ query = ""
    /\ latitude = None
    /\ longitude = None
    /\ places = << >>
    /\ place_options = << >>
    /\ choice = 0
    /\ selected_place = None
    /\ selected_lat = None
    /\ selected_lon = None
    /\ image_bytes = None
    /\ response = None
    /\ requests = << >>
    /\ replies = << >>
    /\ shown = << >>
    /\ stdout = << >>
    /\ img_file_name = ""
    /\ files = [p \in Paths |-> None]

\* lines 98-108 and 131-132: the inputs are rendered; with both the key and the
\* address given the geocode request goes out, otherwise the prompt is written
Render ==
    /\ pc = "start"
    /\ LET page == <<Title, KeyInput, AddressInput, ZoomInput>>
       IN  IF AddressAndKeyGiven(address, api_key)
           THEN /\ requests' = Append(requests, GeocodeRequest(api_key, address))
                /\ shown' = page
                /\ pc' = "geocode"
           ELSE /\ shown' = Append(page, Write(PromptText))
                /\ requests' = requests
                /\ pc' = "done"
    /\ UNCHANGED <<api_key, address, zoom, PassLocals, response, replies, stdout, Downloads>>

\* lines 77-86, 108-113 and 129-130: the geocode response arrives
GeocodeResponse ==
    /\ pc = "geocode"
    /\ \E json \in GeocodeBodies :
        LET ll == get_lat_long(json)
        IN  /\ response' = json
            /\ replies' = Append(replies, [api |-> "geocode", status |-> json.status])
            /\ stdout' = stdout \o get_lat_long_print(json)
            /\ latitude' = ll[1]
            /\ longitude' = ll[2]
            /\ IF GeocodeFound(ll[1], ll[2])
               THEN \E q \in Queries :
                    /\ query' = q
                    /\ shown' = shown \o <<Write(CoordsText(ll[1], ll[2])), QueryInput>>
                    /\ IF QueryGiven(q)
                       THEN /\ requests' = Append(requests,
                                   TextSearchRequest(api_key, q,
                                       PyStr(ll[1]) \o "," \o PyStr(ll[2]), Radius))
                            /\ pc' = "textsearch"
                       ELSE /\ requests' = requests
                            /\ pc' = "done"
               ELSE /\ shown' = Append(shown, Write(NotFoundText))
                    /\ UNCHANGED <<query, requests>>
                    /\ pc' = "done"
    /\ UNCHANGED <<api_key, address, zoom, places, place_options, choice, selected_place,
                   selected_lat, selected_lon, image_bytes, Downloads>>

\* lines 49-62, 113-121 and 127-128: the place-search response arrives
PlacesResponse ==
    /\ pc = "textsearch"
    /\ \E json \in PlaceBodies :
        LET ps == find_places(json)
        IN  /\ response' = json
            /\ replies' = Append(replies,
                   [api |-> "textsearch", status |-> json.status, count |-> Len(GetResults(json))])
            /\ places' = ps
            /\ IF PlacesFound(ps)
               THEN LET options == [i \in 1..Len(ps) |-> PlaceLabel(ps[i])]
                    IN  \E c \in SelectChoices(options) :
                        LET sel == selectbox(options, c)
                        IN  /\ place_options' = options
                            /\ choice' = c
                            /\ selected_place' = sel
                            /\ shown' = Append(shown, PlaceSelect)
                            /\ IF SelectedGiven(sel)
                               THEN LET args == ImageryArgs(ps, options, sel, zoom)
                                    IN  /\ selected_lat' = Some(args.lat)
                                        /\ selected_lon' = Some(args.lon)
                                        /\ requests' = Append(requests,
                                               StaticMapRequest(api_key, args.lat, args.lon, args.zoom))
                                        /\ pc' = "staticmap"
                               ELSE /\ UNCHANGED <<selected_lat, selected_lon, requests>>
                                    /\ pc' = "done"
               ELSE /\ shown' = Append(shown, Write(NoPlacesText))
                    /\ UNCHANGED <<place_options, choice, selected_place, selected_lat,
                                   selected_lon, requests>>
                    /\ pc' = "done"
    /\ UNCHANGED <<api_key, address, zoom, query, latitude, longitude, image_bytes,
                   stdout, Downloads>>

\* lines 91-95 and 121-126: the imagery response arrives
ImageResponse ==
    /\ pc = "staticmap"
    /\ \E resp \in ImageResponses :
        LET b == download_image_as_bytes(resp)
        IN  /\ response' = resp
            /\ replies' = Append(replies, [api |-> "staticmap", status |-> resp.status_code])
            /\ image_bytes' = b
            /\ shown' = Append(shown, IF ImageGiven(b) THEN ShowImage(b) ELSE Error(FailedText))
    /\ pc' = "done"
    /\ UNCHANGED <<api_key, address, zoom, query, latitude, longitude, places, place_options,
                   choice, selected_place, selected_lat, selected_lon, requests, stdout,
                   Downloads>>

\* lines 100-105: the user edits one input field, which starts a fresh pass
\* (a pass still blocked on a request is abandoned)
Rerun ==
    /\ pc \in {"geocode", "textsearch", "staticmap", "done"}
    /\ \/ \E k \in Keys : api_key' = k /\ UNCHANGED <<address, zoom>>
       \/ \E a \in Addresses : address' = a /\ UNCHANGED <<api_key, zoom>>
       \/ \E z \in Zooms : zoom' = z /\ UNCHANGED <<api_key, address>>
    /\ pc' = "start"
    /\ query' = ""
    /\ latitude' = None
    /\ longitude' = None
    /\ places' = << >>
    /\ place_options' = << >>
    /\ choice' = 0
    /\ selected_place' = None
    /\ selected_lat' = None
    /\ selected_lon' = None
    /\ image_bytes' = None
    /\ response' = None
    /\ requests' = << >>
    /\ replies' = << >>
    /\ shown' = << >>
    /\ stdout' = << >>
    /\ UNCHANGED Downloads

Next == Render \/ GeocodeResponse \/ PlacesResponse \/ ImageResponse \/ Rerun

Spec == Init /\ [][Next]_vars

-----------------------------------------------------------------------------
(* The two download functions called on their own *)

InitDownload ==
    /\ pc = "call"
    /\ api_key \in Keys \ {""}
    /\ address = ""
    /\ zoom \in Zooms
    /\ query = ""
    /\ latitude = None
    /\ longitude = None
    /\ places = << >>
    /\ place_options = << >>
    /\ choice = 0
    /\ selected_place = None
    /\ selected_lat \in {Some(c) : c \in Coords}
    /\ selected_lon \in {Some(c) : c \in Coords}
    /\ image_bytes = None
    /\ response = None
    /\ requests = << >>
    /\ replies = << >>
    /\ shown = << >>
    /\ stdout = << >>
    /\ img_file_name \in Paths
    /\ files \in [Paths -> {None, Some("OLD")}]

\* lines 17-26: download_satellite_image(api_key, lat, lon, zoom, img_file_name)
DownloadSatelliteImage ==
    /\ pc = "call"
    /\ \E resp \in ImageResponses :
        /\ response' = resp
        /\ files' = download_satellite_image(resp, img_file_name, files)
        /\ stdout' = Append(stdout, download_satellite_image_print(resp, img_file_name))
    /\ requests' = Append(requests,
           StaticMapRequest(api_key, selected_lat[1], selected_lon[1], zoom))
    /\ pc' = "file_done"
    /\ UNCHANGED <<api_key, address, zoom, PassLocals, replies, shown, img_file_name>>

\* lines 90-95: download_image_as_bytes(api_key, lat, lon, zoom)
DownloadImageAsBytes ==
    /\ pc = "call"
    /\ \E resp \in ImageResponses :
        /\ response' = resp
        /\ image_bytes' = download_image_as_bytes(resp)
    /\ requests' = Append(requests,
           StaticMapRequest(api_key, selected_lat[1], selected_lon[1], zoom))
    /\ pc' = "mem_done"
    /\ UNCHANGED <<api_key, address, zoom, query, latitude, longitude, places,
                   place_options, choice, selected_place, selected_lat, selected_lon,
                   replies, shown, stdout, Downloads>>

NextDownload == DownloadSatelliteImage \/ DownloadImageAsBytes

SpecDownload == InitDownload /\ [][NextDownload]_vars

-----------------------------------------------------------------------------
(* Vocabulary of the properties *)

Kinds(reqs) == [i \in 1..Len(reqs) |-> reqs[i].api]
IsPrefix(s, t) == Len(s) <= Len(t) /\ \A i \in 1..Len(s) : s[i] = t[i]
Shows(e) == \E i \in 1..Len(shown) : shown[i] = e
IsMessage(e) == e.fn \in {"write", "error", "image"}
Messages == SelectSeq(shown, IsMessage)
Protocol == <<"geocode", "textsearch", "staticmap">>
Issued(kind) == \E i \in 1..Len(requests) : requests[i].api = kind
GeocodeReplied == Len(replies) >= 1
PlacesReplied == Len(replies) >= 2
ImageReplied == Len(replies) >= 3

-----------------------------------------------------------------------------
(* Properties *)

\* C1: in every pass the requests issued so far are a prefix of geocode,
\* place search, imagery (so each kind at most once, at most three in all, in
\* that order); a place-search request is in the log only if the geocode reply
\* of the pass had status "OK", and an imagery request only if the
\* place-search reply of the pass had a non-empty result list.
C1_RequestOrder ==
    /\ IsPrefix(Kinds(requests), Protocol)
    /\ IsPrefix(Kinds(replies), Kinds(requests))
    /\ Issued("textsearch") => GeocodeReplied /\ replies[1].status = "OK"
    /\ Issued("staticmap") => PlacesReplied /\ replies[2].count > 0

C1_Witness == pc = "done" /\ Kinds(requests) = Protocol /\ ImageReplied

\* C2: once a pass has run with the API key or the address empty, it has
\* stopped, it wrote exactly the prompt "Please enter a valid API key and
\* address." after the input fields, and it issued no request and showed no
\* coordinates, query field, selector, image or other message.
C2_MissingKeyOrAddress ==
    (pc # "start" /\ (api_key = "" \/ address = "")) =>
        /\ pc = "done"
        /\ requests = << >>
        /\ replies = << >>
        /\ shown = <<Title, KeyInput, AddressInput, ZoomInput, Write(PromptText)>>
        /\ latitude = None /\ longitude = None /\ places = << >> /\ image_bytes = None

C2_Witness == pc = "done" /\ api_key # "" /\ address = "" /\ Shows(Write(PromptText))

\* C3: when the geocode reply has status "OK", get_lat_long returned the lat
\* and lng of results[0] (whatever further results follow), the page shows
\* "Latitude: <lat>, Longitude: <lng>" with those values and does not show
\* "Location not found." -- also when lat or lng is 0.
C3_GeocodeOK ==
    (Len(replies) = 1 /\ response.status = "OK") =>
        LET loc == response.results[1].geometry.location
        IN  /\ latitude = Some(loc.lat)
            /\ longitude = Some(loc.lng)
            /\ Shows(Write("Latitude: " \o ToString(loc.lat)
                           \o ", Longitude: " \o ToString(loc.lng)))
            /\ ~Shows(Write(NotFoundText))

C3_Witness ==
    /\ Len(replies) = 1 /\ response.status = "OK"
    /\ Len(response.results) = 2
    /\ response.results[1].geometry.location = [lat |-> 0, lng |-> 1]
    /\ response.results[2].geometry.location = [lat |-> 1, lng |-> 0]
    /\ Shows(Write("Latitude: 0, Longitude: 1"))

\* C4: when the geocode reply has a status other than "OK", with or without
\* a results field, get_lat_long returned (None, None) and the pass has
\* stopped having written "Location not found." as its only message: no
\* coordinates, and no place-search or imagery request.
C4_GeocodeNotOK ==
    (GeocodeReplied /\ replies[1].status # "OK") =>
        /\ latitude = None
        /\ longitude = None
        /\ pc = "done"
        /\ Messages = <<Write(NotFoundText)>>
        /\ ~Shows(QueryInput)
        /\ Kinds(requests) = <<"geocode">>

C4_Witness ==
    /\ pc = "done" /\ Len(replies) = 1
    /\ response.status = "REQUEST_DENIED" /\ "results" \notin DOMAIN response
    /\ Shows(Write(NotFoundText))

\* C5: when the place-search reply carries no results, find_places returned
\* the empty sequence and the pass has stopped having written "No places
\* found.": no selector is shown and no imagery request is issued.
C5_NoPlaces ==
    (PlacesReplied /\ replies[2].count = 0) =>
        /\ places = << >>
        /\ pc = "done"
        /\ Messages = <<Write(CoordsText(latitude, longitude)), Write(NoPlacesText)>>
        /\ ~Shows(PlaceSelect)
        /\ ~Issued("staticmap")

C5_Witness ==
    /\ pc = "done" /\ Len(replies) = 2
    /\ "results" \in DOMAIN response /\ response.results = << >>
    /\ Shows(Write(NoPlacesText))

\* C6: download_satellite_image leaves the response bytes in the file at the
\* given path, and download_image_as_bytes returns the response bytes, exactly
\* when the status is 200; for any other status the first prints the failure
\* line and writes no file, and the second returns None.
C6_DownloadIff200 ==
    /\ pc = "file_done" =>
         IF response.status_code = 200
         THEN /\ files[img_file_name] = Some(response.content)
              /\ \A p \in Paths \ {img_file_name} : files[p] \in {None, Some("OLD")}
              /\ stdout = <<"Image successfully downloaded: " \o img_file_name>>
         ELSE /\ \A p \in Paths : files[p] \in {None, Some("OLD")}
              /\ stdout = <<FailedText>>
    /\ pc = "mem_done" =>
         image_bytes = IF response.status_code = 200 THEN Some(response.content) ELSE None

C6_Witness ==
    /\ pc = "file_done" /\ response.status_code = 204
    /\ files[img_file_name] = Some("OLD")

\* C7 as claimed: in a pass with key and address given and the geocode found,
\* an empty search query makes the page show a prompt (a message other than
\* the coordinates line) and no place-search or imagery request is issued.
C7_EmptyQueryPrompt ==
    (pc = "done" /\ Shows(QueryInput) /\ query = "") =>
        /\ \E i \in 1..Len(Messages) : Messages[i] # Write(CoordsText(latitude, longitude))
        /\ ~Issued("textsearch")
        /\ ~Issued("staticmap")

\* C7 amended: in a pass with key and address given and the geocode found, an
\* empty search query stops the pass silently: the coordinates line is the
\* only message, the query field is the last element on the page, and no
\* place-search or imagery request is issued.
C7_EmptyQuerySilent ==
    (pc # "start" /\ Shows(QueryInput) /\ query = "") =>
        /\ pc = "done"
        /\ api_key # "" /\ address # "" /\ replies[1].status = "OK"
        /\ Messages = <<Write(CoordsText(latitude, longitude))>>
        /\ shown[Len(shown)] = QueryInput
        /\ Kinds(requests) = <<"geocode">>

C7_Witness == pc = "done" /\ Shows(QueryInput) /\ query = "" /\ latitude = Some(0)

\* C8: every place built by find_places carries zoom 12, the zoom field is an
\* integer in 0..21, and the zoom of the imagery request is the value of the
\* zoom field, not the zoom carried by the place.
C8_ZoomDecoupled ==
    /\ \A i \in 1..Len(places) : places[i].zoom = 12
    /\ zoom \in 0..21
    /\ Issued("staticmap") => requests[3].params.zoom = zoom

C8_Witness ==
    /\ Issued("staticmap") /\ zoom = 14
    /\ places[choice + 1].zoom = 12 /\ requests[3].params.zoom = 14

\* C9: once the imagery reply has arrived, the page shows the image (the
\* bytes of the reply) and no error when the status was 200, and the error
\* "Failed to download the image. Check your API key and quota." and no
\* image otherwise: exactly one of the two.
C9_ImageOrError ==
    ImageReplied =>
        LET img == \E i \in 1..Len(shown) : shown[i].fn = "image"
            err == \E i \in 1..Len(shown) : shown[i].fn = "error"
        IN  /\ pc = "done"
            /\ img # err
            /\ replies[3].status = 200 =>
                   Messages[Len(Messages)] = [fn |-> "image", body |-> response.content]
            /\ replies[3].status # 200 => Messages[Len(Messages)] = Error(FailedText)

C9_Witness ==
    /\ ImageReplied /\ replies[3].status = 403
    /\ Shows(Error(FailedText))

\* C10: the places are kept in the order of the reply, and whichever option
\* the user has selected, the center of the imagery request is the latitude
\* and longitude of the place at the selected position -- also when another
\* place earlier in the list has the same label.
C10_SelectedCenter ==
    /\ (Len(replies) = 2 /\ "results" \in DOMAIN response) =>
           /\ Len(places) = Len(response.results)
           /\ \A i \in 1..Len(places) :
                  /\ places[i].name = response.results[i].name
                  /\ places[i].latitude = response.results[i].geometry.location.lat
                  /\ places[i].longitude = response.results[i].geometry.location.lng
    /\ Issued("staticmap") =>
           LET place == places[choice + 1]
           IN  /\ selected_lat = Some(place.latitude)
               /\ selected_lon = Some(place.longitude)
               /\ requests[3].params.center =
                      ToString(place.latitude) \o "," \o ToString(place.longitude)

C10_Witness ==
    /\ Issued("staticmap") /\ Len(places) = 2 /\ choice = 1
    /\ place_options[1] = place_options[2]

====
